---- MODULE Spec2Model ----
(***************************************************************************)
(* Model of delete_non_priority_emails.py: one run of main() against an    *)
(* IMAP mailbox.  The mailbox (folder, flagged) is the server side of the  *)
(* session; the call logs record every command the script issues.          *)
(***************************************************************************)
EXTENDS Integers, Sequences, FiniteSets, TLC

\* ------------------------------------------------------------------ bounds
MaxSenders == 2      \* longest configured sender list
MaxMsgs == 2         \* messages in the inbox when the run starts
MaxFaults == 1       \* failures and exceptions injected in one run

\* ------------------------------------------------------------- input sets
\* sender patterns: a plain address, and an entry with double quotes in it
PlainPattern == "a@x"

QuotedPattern == "b\" TO \"x"

SenderPatterns == {PlainPattern, QuotedPattern}

MsgIds == 1..MaxMsgs

\* sequences over S of length at most n
SeqUpTo(S, n) == UNION {[1..k -> S] : k \in 0..n}

\* the "senders" array of non_priority_senders.json (load_non_priority_senders)
SenderLists == SeqUpTo(SenderPatterns, MaxSenders)

NoDup(s) == \A i, j \in DOMAIN s : i # j => s[i] # s[j]

\* the inboxes a run may meet: for each message, the configured patterns its
\* From header matches (none: a message of a priority sender)
Mailboxes == [MsgIds -> SUBSET SenderPatterns]

\* the elements of the set of numbers S, ascending
RECURSIVE Ascending(_)
Ascending(S) ==
    IF S = {}
    THEN <<>>
    ELSE LET m == CHOOSE x \in S : \A y \in S : x <= y
         IN <<m>> \o Ascending(S \ {m})

\* lines typed at the prompt, as character sequences
Responses ==
    { <<"y">>, <<" ", "Y", "E", "S", "\t">>,
      <<>>, <<"m", "a", "y", "b", "e">> }

\* ------------------------------------------------------- pure functions
Whitespace == {" ", "\t", "\n", "\r"}

RECURSIVE LStrip(_)
LStrip(s) == IF s # <<>> /\ Head(s) \in Whitespace THEN LStrip(Tail(s)) ELSE s

RECURSIVE RStrip(_)
RStrip(s) ==
    IF s # <<>> /\ s[Len(s)] \in Whitespace
    THEN RStrip(SubSeq(s, 1, Len(s) - 1))
    ELSE s

\* str.strip()
Strip(s) == RStrip(LStrip(s))

LowerChar(c) ==
    CASE c = "Y" -> "y"
      [] c = "E" -> "e"
      [] c = "S" -> "s"
      [] c = "N" -> "n"
      [] c = "M" -> "m"
      [] c = "A" -> "a"
      [] c = "B" -> "b"
      [] OTHER -> c

\* str.lower()
Lower(s) == [i \in DOMAIN s |-> LowerChar(s[i])]

\* input().strip().lower()
Normalize(raw) == Lower(Strip(raw))

\* mutation: an empty line takes a default of yes
AffirmativeOrEmpty(c) == c \in {<<"y">>, <<"y", "e", "s">>, <<>>}

\* confirmation in ['y', 'yes']
Affirmative(c) == c \in {<<"y">>, <<"y", "e", "s">>}

\* f'FROM "{sender}"'
SearchCriteria(sender) == "FROM \"" \o sender \o "\""

\* the Subject headers of the inbox's messages: what email_message["Subject"]
\* returns (absent: None), its text, and the (part, encoding) pairs
\* decode_header makes of it; "decodes" tells whether the part's bytes are
\* valid in its charset, "lossy" is what errors='ignore' keeps of them
SubjectHeaders ==
    << [absent |-> TRUE, raw |-> "", parts |-> <<>>],
       [absent |-> FALSE, raw |-> "=?x-nope?q?sale?=",
        parts |-> <<[bytes |-> TRUE, charset |-> "x-nope", decodes |-> TRUE,
                     text |-> "sale", lossy |-> "sale"]>>],
       [absent |-> FALSE, raw |-> "=?utf-8?q?sal=FF?=",
        parts |-> <<[bytes |-> TRUE, charset |-> "utf-8", decodes |-> FALSE,
                     text |-> "", lossy |-> "sal"]>>],
       [absent |-> FALSE, raw |-> "re: =?utf-8?q?caf=C3=A9?=",
        parts |-> <<[bytes |-> FALSE, charset |-> "", decodes |-> TRUE,
                     text |-> "re: ", lossy |-> "re: "],
                    [bytes |-> TRUE, charset |-> "utf-8", decodes |-> TRUE,
                     text |-> "cafe'", lossy |-> "cafe'"]>>] >>

\* the Subject header of message m
SubjectOf(m) == SubjectHeaders[((m - 1) % Len(SubjectHeaders)) + 1]

\* the codecs bytes.decode() knows
KnownCharsets == {"utf-8"}

\* lines 70-77: the text of one part, or the exception decode() raises
\* (LookupError for an unknown codec, UnicodeDecodeError for invalid bytes)
PartText(part) ==
    IF part.bytes
    THEN IF part.charset # ""
         THEN IF part.charset \in KnownCharsets /\ part.decodes
              THEN [raised |-> FALSE, text |-> part.text]
              ELSE [raised |-> TRUE, text |-> ""]
         ELSE [raised |-> FALSE, text |-> part.lossy]
    ELSE [raised |-> FALSE, text |-> part.text]

\* lines 66-79: the try body, concatenating the parts' texts
RECURSIVE TryDecode(_)
TryDecode(parts) ==
    IF parts = <<>>
    THEN [raised |-> FALSE, text |-> ""]
    ELSE LET p == PartText(Head(parts))
             rest == TryDecode(Tail(parts))
         IN IF p.raised \/ rest.raised
            THEN [raised |-> TRUE, text |-> ""]
            ELSE [raised |-> FALSE, text |-> p.text \o rest.text]

\* mutation: no except clause, the decode error leaves decode_subject
DecodeSubjectNoFallback(subject) ==
    IF subject.absent
    THEN [raised |-> FALSE, text |-> "No Subject"]
    ELSE TryDecode(subject.parts)

\* decode_subject: what it returns, and whether it raised
DecodeSubject(subject) ==
    IF subject.absent
    THEN [raised |-> FALSE, text |-> "No Subject"]
    ELSE LET r == TryDecode(subject.parts)
         IN IF r.raised
            THEN [raised |-> FALSE, text |-> subject.raw]
            ELSE r

\* ------------------------------------------------------------------ state
VARIABLES
    pc,               \* position of main()
    senders,          \* the loaded sender list
    si,               \* find_emails_from_senders: index of the current sender
    message_ids,      \* ids of the current sender's search answer
    mi,               \* index of the current id in message_ids
    emails_to_delete, \* the located-message sequence
    response,         \* the raw line read by input(), <<"?">> before the prompt
    confirmation,     \* the normalised response
    di,               \* delete_emails: index of the current entry
    deleted_count,
    failed_count,
    printed,          \* which report lines were printed
    exc,              \* exception propagating out of the try body
    exitStatus,       \* process exit status, -1 while running
    session,          \* the connection: "none", "selected", "unselected"
                      \* (logged in, SELECT refused), "auth" (closed),
                      \* "logout"
    from,             \* server: the patterns each message's From header matches
    folder,           \* server: messages in the inbox
    flagged,          \* server: messages carrying \Deleted
    searchLog,        \* criteria of the search calls, in call order
    searchHist,       \* outcome of each search call
    fetchFailed,      \* <<search call, position>> of the fetches that failed
    storeLog,         \* ids of the store calls, in call order
    storeOk,          \* outcome of each store call
    expungeOutcome,   \* outcomes of the expunge calls
    promptCalls,
    openCalls,
    closeCalls,
    logoutCalls,
    faults

vars == <<pc, senders, si, message_ids, mi, emails_to_delete, response,
          confirmation, di, deleted_count, failed_count, printed, exc,
          exitStatus, session, from, folder, flagged,
          searchLog, searchHist,
          fetchFailed,
          storeLog, storeOk, expungeOutcome, promptCalls, openCalls,
          closeCalls, logoutCalls, faults>>

locatorVars == <<si, message_ids, mi, emails_to_delete, searchLog,
                 searchHist, fetchFailed>>

executorVars == <<di, deleted_count, failed_count, storeLog, storeOk,
                  expungeOutcome>>

promptVars == <<response, confirmation, promptCalls>>

serverVars == <<from, folder, flagged>>

teardownVars == <<session, closeCalls, logoutCalls>>

NoResponse == <<"?">>

Init ==
    /\ pc = "connect"
    /\ senders \in SenderLists
    /\ si = 0
    /\ message_ids = <<>>
    /\ mi = 0
    /\ emails_to_delete = <<>>
    /\ response = NoResponse
    /\ confirmation = NoResponse
    /\ di = 0
    /\ deleted_count = 0
    /\ failed_count = 0
    /\ printed = {}
    /\ exc = "none"
    /\ exitStatus = -1
    /\ session = "none"
    /\ from \in Mailboxes
    /\ folder = MsgIds
    /\ flagged \in {{}, {MaxMsgs}}
    /\ searchLog = <<>>
    /\ searchHist = <<>>
    /\ fetchFailed = {}
    /\ storeLog = <<>>
    /\ storeOk = <<>>
    /\ expungeOutcome = <<>>
    /\ promptCalls = 0
    /\ openCalls = 0
    /\ closeCalls = 0
    /\ logoutCalls = 0
    /\ faults = 0


\* ---------------------------------------------------------------- connect
\* connect_to_gmail returns the session
ConnectOk ==
    /\ pc = "connect"
    /\ openCalls' = openCalls + 1
    /\ session' = "selected"
    /\ si' = 1
    /\ pc' = "search"
    /\ UNCHANGED <<senders, message_ids, mi, emails_to_delete, searchLog,
                   searchHist, fetchFailed, executorVars, promptVars, printed,
                   exc, exitStatus, serverVars, closeCalls, logoutCalls, faults>>

\* connect_to_gmail: login succeeds and imap.select answers NO.  imaplib
\* returns the status without raising, line 92 does not look at it, and the
\* session is returned with no mailbox selected
ConnectSelectNotOk ==
    /\ pc = "connect"
    /\ faults < MaxFaults
    /\ faults' = faults + 1
    /\ openCalls' = openCalls + 1
    /\ session' = "unselected"
    /\ si' = 1
    /\ pc' = "search"
    /\ UNCHANGED <<senders, message_ids, mi, emails_to_delete,
                   searchLog, searchHist, fetchFailed, executorVars, promptVars,
                   printed, exc, exitStatus, serverVars, closeCalls, logoutCalls>>

\* connect_to_gmail: login or select raises, the handler calls exit(1)
ConnectFails ==
    /\ pc = "connect"
    /\ openCalls' = openCalls + 1
    /\ printed' = printed \cup {"connect_error"}
    /\ exitStatus' = 1
    /\ pc' = "done"
    /\ UNCHANGED <<senders, locatorVars, executorVars, promptVars, exc,
                   serverVars, teardownVars, faults>>

\* ---------------------------------------------------------------- locator
InLocatorLoop == pc = "search" /\ si <= Len(senders)

\* mutation: the failed search is issued again for the same sender
SkipSenderRetries ==
    /\ pc' = "search"
    /\ UNCHANGED <<si, message_ids, mi, emails_to_delete>>

\* mutation: after a failed search the previous answer's ids are fetched again
SkipSenderStaleIds ==
    /\ IF message_ids # <<>>
       THEN mi' = 1 /\ pc' = "fetch" /\ UNCHANGED si
       ELSE si' = si + 1 /\ pc' = "search" /\ UNCHANGED mi
    /\ UNCHANGED <<message_ids, emails_to_delete>>

\* the skipped sender's "continue" (line 162) or the fall-through of a
\* non-OK status: on to the next sender
SkipSender ==
    /\ si' = si + 1
    /\ pc' = "search"
    /\ UNCHANGED <<message_ids, mi, emails_to_delete>>

\* after the fetch of message_ids[mi]: next id, or the next sender after the last
NextMessage ==
    IF mi < Len(message_ids)
    THEN mi' = mi + 1 /\ pc' = "fetch" /\ UNCHANGED si
    ELSE si' = si + 1 /\ pc' = "search" /\ UNCHANGED mi

\* the server's answer to SEARCH FROM "sender": the matching message numbers
SearchAnswer(sender) == Ascending({m \in folder : sender \in from[m]})

\* imap.search answers OK with ids
SearchOk ==
    /\ InLocatorLoop
    /\ session = "selected"
    /\ LET ids == SearchAnswer(senders[si]) IN
        /\ searchLog' = Append(searchLog, SearchCriteria(senders[si]))
        /\ searchHist' = Append(searchHist,
                                [sender |-> senders[si], ok |-> TRUE, ids |-> ids])
        /\ message_ids' = ids
        /\ IF ids = <<>>
           THEN si' = si + 1 /\ pc' = "search" /\ UNCHANGED mi
           ELSE mi' = 1 /\ pc' = "fetch" /\ UNCHANGED si
    /\ UNCHANGED <<senders, emails_to_delete, fetchFailed, executorVars,
                   promptVars, printed, exc, exitStatus, serverVars,
                   teardownVars, openCalls, faults>>

\* a search that yields nothing for the sender (the error line a raising
\* search prints at line 161 is not recorded: nothing reads it)
SearchFailed ==
    /\ InLocatorLoop
    /\ session = "selected"
    /\ faults < MaxFaults
    /\ faults' = faults + 1
    /\ searchLog' = Append(searchLog, SearchCriteria(senders[si]))
    /\ searchHist' = Append(searchHist,
                            [sender |-> senders[si], ok |-> FALSE, ids |-> <<>>])
    /\ SkipSender
    /\ UNCHANGED <<senders, fetchFailed, executorVars, promptVars, printed,
                   exc, exitStatus, serverVars, teardownVars, openCalls>>

\* imap.search answers a status other than OK (line 130 is false)
SearchNotOk == SearchFailed

\* imap.search raises, caught at line 160
SearchRaises == SearchFailed

\* imap.search with no mailbox selected: imaplib raises "command SEARCH
\* illegal in state AUTH" before sending anything, caught at line 160
SearchIllegal ==
    /\ InLocatorLoop
    /\ session # "selected"
    /\ searchLog' = Append(searchLog, SearchCriteria(senders[si]))
    /\ searchHist' = Append(searchHist,
                            [sender |-> senders[si], ok |-> FALSE, ids |-> <<>>])
    /\ SkipSender
    /\ UNCHANGED <<senders, fetchFailed, executorVars, promptVars,
                   printed, exc, exitStatus, serverVars, teardownVars, openCalls,
                   faults>>

\* the dict appended at lines 146-152 (its 'from' and 'date' are never read)
LocatedMessage(subject) ==
    [id |-> message_ids[mi], subject |-> subject, sender |-> senders[si]]

\* mutation: a message already located for another sender is not appended again
FetchOkOncePerMessage ==
    /\ pc = "fetch"
    /\ LET decoded == DecodeSubject(SubjectOf(message_ids[mi])) IN
          IF decoded.raised
               \/ \E i \in DOMAIN emails_to_delete :
                      emails_to_delete[i].id = message_ids[mi]
          THEN emails_to_delete' = emails_to_delete
          ELSE emails_to_delete' = Append(emails_to_delete,
                                          LocatedMessage(decoded.text))
    /\ NextMessage
    /\ UNCHANGED <<senders, message_ids, searchLog, searchHist,
                   fetchFailed, executorVars, promptVars, printed, exc,
                   exitStatus, serverVars, teardownVars, openCalls, faults>>

\* imap.fetch answers OK: the subject is decoded and the message appended;
\* an exception of decode_subject would be caught at line 154 and the message
\* left out
FetchOk ==
    /\ pc = "fetch"
    /\ LET decoded == DecodeSubject(SubjectOf(message_ids[mi])) IN
          IF decoded.raised
          THEN emails_to_delete' = emails_to_delete
          ELSE emails_to_delete' = Append(emails_to_delete,
                                          LocatedMessage(decoded.text))
    /\ NextMessage
    /\ UNCHANGED <<senders, message_ids, searchLog, searchHist, fetchFailed,
                   executorVars, promptVars, printed, exc, exitStatus,
                   serverVars, teardownVars, openCalls, faults>>

\* mutation: a failed fetch abandons the rest of the sender's messages
FetchFailedDropsSender ==
    /\ pc = "fetch"
    /\ faults < MaxFaults
    /\ faults' = faults + 1
    /\ fetchFailed' = fetchFailed \cup {<<Len(searchHist), mi>>}
    /\ si' = si + 1
    /\ pc' = "search"
    /\ UNCHANGED <<senders, message_ids, mi, emails_to_delete, searchLog,
                   searchHist, executorVars, promptVars, printed, exc,
                   exitStatus, serverVars, teardownVars, openCalls>>

\* a fetch that yields no entry (the warning a raising fetch prints at line
\* 155 is not recorded: nothing reads it)
FetchFailed ==
    /\ pc = "fetch"
    /\ faults < MaxFaults
    /\ faults' = faults + 1
    /\ fetchFailed' = fetchFailed \cup {<<Len(searchHist), mi>>}
    /\ NextMessage
    /\ UNCHANGED <<senders, message_ids, emails_to_delete, searchLog,
                   searchHist, executorVars, promptVars, printed, exc,
                   exitStatus, serverVars, teardownVars, openCalls>>

\* imap.fetch answers a status other than OK (line 138 is false)
FetchNotOk == FetchFailed

\* imap.fetch or the parsing raises, caught at line 154
FetchRaises == FetchFailed

\* mutation: main() goes from the locator straight to delete_emails
FindReturnDeletes ==
    /\ pc = "search"
    /\ si > Len(senders)
    /\ IF emails_to_delete # <<>>
       THEN pc' = "store" /\ di' = 1
       ELSE pc' = "summary" /\ di' = di
    /\ UNCHANGED <<senders, locatorVars, deleted_count,
                   failed_count, storeLog, storeOk, expungeOutcome, promptVars,
                   printed, exc, exitStatus, serverVars, teardownVars, openCalls,
                   faults>>

\* the for loop of line 122 is exhausted: return emails_to_delete
FindReturn ==
    /\ pc = "search"
    /\ si > Len(senders)
    /\ pc' = "summary"
    /\ UNCHANGED <<senders, locatorVars, executorVars, promptVars, printed,
                   exc, exitStatus, serverVars, teardownVars, openCalls, faults>>

\* ---------------------------------------------------------------- summary
\* mutation: the summary is shown and True returned for an empty list too
HasWorkAlways(emails) == TRUE

\* display_email_summary's result
HasWork(emails) == emails # <<>>

\* mutation: a sender seen for the first time is put before the others
AddToGroupsNewestFirst(groups, e) ==
    IF \E g \in DOMAIN groups : groups[g].sender = e.sender
    THEN [g \in DOMAIN groups |->
             IF groups[g].sender = e.sender
             THEN [groups[g] EXCEPT !.emails = Append(@, e)]
             ELSE groups[g]]
    ELSE <<[sender |-> e.sender, emails |-> <<e>>]>> \o groups

\* lines 182-185: by_sender[sender].append(email_info), a new key going last
\* (a dict keeps insertion order)
AddToGroups(groups, e) ==
    IF \E g \in DOMAIN groups : groups[g].sender = e.sender
    THEN [g \in DOMAIN groups |->
             IF groups[g].sender = e.sender
             THEN [groups[g] EXCEPT !.emails = Append(@, e)]
             ELSE groups[g]]
    ELSE Append(groups, [sender |-> e.sender, emails |-> <<e>>])

\* the loop of lines 180-185 over emails: the dict by_sender as the sequence
\* of its items
RECURSIVE GroupBySender(_)
GroupBySender(emails) ==
    IF emails = <<>>
    THEN <<>>
    ELSE AddToGroups(GroupBySender(SubSeq(emails, 1, Len(emails) - 1)),
                     emails[Len(emails)])

\* the groups display_email_summary prints for the located sequence
by_sender == GroupBySender(emails_to_delete)

\* display_email_summary, then lines 259-260: nothing to do returns through
\* the finally block
DisplaySummary ==
    /\ pc = "summary"
    /\ IF HasWork(emails_to_delete)
       THEN /\ printed' = printed \cup {"summary"}
            /\ pc' = "confirm"
       ELSE /\ printed' = printed \cup {"none_found"}
            /\ pc' = "close"
    /\ UNCHANGED <<senders, locatorVars, executorVars, promptVars, exc,
                   exitStatus, serverVars, teardownVars, openCalls, faults>>

\* ----------------------------------------------------------- confirmation
\* lines 263-270
ReadConfirmation ==
    /\ pc = "confirm"
    /\ \E raw \in Responses :
        /\ response' = raw
        /\ confirmation' = Normalize(raw)
        /\ promptCalls' = promptCalls + 1
        /\ IF Affirmative(Normalize(raw))
           THEN /\ pc' = "store"
                /\ di' = 1
                /\ printed' = printed
           ELSE /\ pc' = "close"
                /\ di' = di
                /\ printed' = printed \cup {"cancelled"}
    /\ UNCHANGED <<senders, locatorVars, deleted_count, failed_count, storeLog,
                   storeOk, expungeOutcome, exc, exitStatus, serverVars,
                   teardownVars, openCalls, faults>>

\* input() raises EOFError: nothing catches it before the finally block
ReadEOF ==
    /\ pc = "confirm"
    /\ faults < MaxFaults
    /\ faults' = faults + 1
    /\ promptCalls' = promptCalls + 1
    /\ exc' = "EOFError"
    /\ pc' = "close"
    /\ UNCHANGED <<senders, locatorVars, executorVars, response, confirmation,
                   printed, exitStatus, serverVars, teardownVars, openCalls>>

\* --------------------------------------------------------------- executor
\* after the store of emails_to_delete[di]: next entry, or expunge after the last
NextEmail ==
    IF di < Len(emails_to_delete)
    THEN di' = di + 1 /\ pc' = "store"
    ELSE di' = di /\ pc' = "expunge"

\* line 215 returns: counted at line 216 whatever status it returned
CountDeleted ==
    /\ deleted_count' = deleted_count + 1
    /\ failed_count' = failed_count

\* line 215 raises: counted at line 223
CountFailed ==
    /\ failed_count' = failed_count + 1
    /\ deleted_count' = deleted_count

\* imap.store answers OK: the server flags the message
StoreOk ==
    /\ pc = "store"
    /\ storeLog' = Append(storeLog, emails_to_delete[di].id)
    /\ storeOk' = Append(storeOk, TRUE)
    /\ flagged' = flagged \cup ({emails_to_delete[di].id} \cap folder)
    /\ CountDeleted
    /\ NextEmail
    /\ UNCHANGED <<senders, locatorVars, expungeOutcome, promptVars, printed,
                   exc, exitStatus, from, folder, teardownVars, openCalls, faults>>

\* imap.store answers NO: nothing is flagged, nothing is raised, and the
\* returned status is not looked at
StoreNotOk ==
    /\ pc = "store"
    /\ faults < MaxFaults
    /\ faults' = faults + 1
    /\ storeLog' = Append(storeLog, emails_to_delete[di].id)
    /\ storeOk' = Append(storeOk, FALSE)
    /\ CountDeleted
    /\ NextEmail
    /\ UNCHANGED <<senders, locatorVars, expungeOutcome, promptVars, printed,
                   exc, exitStatus, serverVars, teardownVars, openCalls>>

\* mutation: a failed store ends the loop
StoreRaisesAborts ==
    /\ pc = "store"
    /\ faults < MaxFaults
    /\ faults' = faults + 1
    /\ storeLog' = Append(storeLog, emails_to_delete[di].id)
    /\ storeOk' = Append(storeOk, FALSE)
    /\ printed' = printed \cup {"store_error"}
    /\ CountFailed
    /\ di' = di
    /\ pc' = "expunge"
    /\ UNCHANGED <<senders, locatorVars, expungeOutcome, promptVars,
                   exc, exitStatus, serverVars, teardownVars, openCalls>>

\* mutation: a failed store is not caught
StoreRaisesPropagates ==
    /\ pc = "store"
    /\ faults < MaxFaults
    /\ faults' = faults + 1
    /\ storeLog' = Append(storeLog, emails_to_delete[di].id)
    /\ storeOk' = Append(storeOk, FALSE)
    /\ exc' = "IMAP4.error"
    /\ pc' = "close"
    /\ UNCHANGED <<senders, locatorVars, di, deleted_count, failed_count,
                   expungeOutcome, promptVars, printed, exitStatus, serverVars,
                   teardownVars, openCalls>>

\* imap.store raises, caught at line 221
StoreRaises ==
    /\ pc = "store"
    /\ faults < MaxFaults
    /\ faults' = faults + 1
    /\ storeLog' = Append(storeLog, emails_to_delete[di].id)
    /\ storeOk' = Append(storeOk, FALSE)
    /\ printed' = printed \cup {"store_error"}
    /\ CountFailed
    /\ NextEmail
    /\ UNCHANGED <<senders, locatorVars, expungeOutcome, promptVars,
                   exc, exitStatus, serverVars, teardownVars, openCalls>>

\* lines 228-230, then line 268
SuccessReport ==
    {"success", "completed"} \cup (IF failed_count > 0 THEN {"failed_warning"} ELSE {})

\* imap.expunge answers OK: the server removes every flagged message
ExpungeOk ==
    /\ pc = "expunge"
    /\ expungeOutcome' = Append(expungeOutcome, "OK")
    /\ folder' = folder \ flagged
    /\ flagged' = {}
    /\ UNCHANGED from
    /\ printed' = printed \cup SuccessReport
    /\ pc' = "close"
    /\ UNCHANGED <<senders, locatorVars, di, deleted_count, failed_count,
                   storeLog, storeOk, promptVars, exc, exitStatus, teardownVars,
                   openCalls, faults>>

\* imap.expunge answers NO: nothing is removed, nothing is raised
ExpungeNotOk ==
    /\ pc = "expunge"
    /\ faults < MaxFaults
    /\ faults' = faults + 1
    /\ expungeOutcome' = Append(expungeOutcome, "NO")
    /\ printed' = printed \cup SuccessReport
    /\ pc' = "close"
    /\ UNCHANGED <<senders, locatorVars, di, deleted_count, failed_count,
                   storeLog, storeOk, promptVars, exc, exitStatus, serverVars,
                   teardownVars, openCalls>>

\* imap.expunge raises, caught at line 231; line 268 still prints
ExpungeRaises ==
    /\ pc = "expunge"
    /\ faults < MaxFaults
    /\ faults' = faults + 1
    /\ expungeOutcome' = Append(expungeOutcome, "raise")
    /\ printed' = printed \cup {"expunge_error", "completed"}
    /\ pc' = "close"
    /\ UNCHANGED <<senders, locatorVars, di, deleted_count, failed_count,
                   storeLog, storeOk, promptVars, exc, exitStatus, serverVars,
                   teardownVars, openCalls>>

\* ------------------------------------------------------------- exceptions
InTryBody == pc \in {"search", "fetch", "summary", "confirm", "store", "expunge"}

\* mutation: no finally block, the exception leaves main() at once
InterruptSkipsFinally ==
    /\ pc \in {"search", "fetch", "summary", "confirm", "store", "expunge"}
    /\ faults < MaxFaults
    /\ faults' = faults + 1
    /\ exc' = "KeyboardInterrupt"
    /\ exitStatus' = 1
    /\ pc' = "done"
    /\ UNCHANGED <<senders, locatorVars, executorVars, promptVars, printed,
                   serverVars, teardownVars, openCalls>>

\* a KeyboardInterrupt in the try body: no "except Exception" catches it,
\* control goes to the finally block (line 272)
Interrupt ==
    /\ InTryBody
    /\ faults < MaxFaults
    /\ faults' = faults + 1
    /\ exc' = "KeyboardInterrupt"
    /\ pc' = "close"
    /\ UNCHANGED <<senders, locatorVars, executorVars, promptVars, printed,
                   exitStatus, serverVars, teardownVars, openCalls>>

\* --------------------------------------------------------------- teardown
\* main() is left: status 0, or non-zero when an exception is propagating
ExitStatus == IF exc = "none" THEN 0 ELSE 1

\* imap.close() returns: the server removes the flagged messages of the
\* writable mailbox
CloseOk ==
    /\ pc = "close"
    /\ session = "selected"
    /\ closeCalls' = closeCalls + 1
    /\ folder' = folder \ flagged
    /\ flagged' = {}
    /\ UNCHANGED from

\* imap.close() raises: the bare except of line 278 passes, line 276 is skipped
CloseRaises ==
    /\ pc = "close"
    /\ session = "selected"
    /\ faults < MaxFaults
    /\ faults' = faults + 1
    /\ closeCalls' = closeCalls + 1
    /\ exitStatus' = ExitStatus
    /\ session' = "auth"
    /\ pc' = "done"
    /\ UNCHANGED <<senders, locatorVars, executorVars, promptVars, printed, exc,
                   serverVars, logoutCalls, openCalls>>

\* imap.close() with no mailbox selected: imaplib raises "command CLOSE
\* illegal in state AUTH", the bare except passes, line 276 is skipped
CloseIllegal ==
    /\ pc = "close"
    /\ session # "selected"
    /\ closeCalls' = closeCalls + 1
    /\ exitStatus' = ExitStatus
    /\ pc' = "done"
    /\ UNCHANGED <<senders, locatorVars, executorVars, promptVars,
                   printed, exc, serverVars, session, logoutCalls, openCalls,
                   faults>>

\* the finally block with nothing raised: close(), logout(), line 277
LogoutOk ==
    /\ CloseOk
    /\ logoutCalls' = logoutCalls + 1
    /\ printed' = printed \cup {"disconnected"}
    /\ exitStatus' = ExitStatus
    /\ session' = "logout"
    /\ pc' = "done"
    /\ UNCHANGED <<senders, locatorVars, executorVars, promptVars, exc,
                   openCalls, faults>>

\* close() returns and imap.logout() raises: the bare except of line 278 passes
LogoutRaises ==
    /\ CloseOk
    /\ faults < MaxFaults
    /\ faults' = faults + 1
    /\ logoutCalls' = logoutCalls + 1
    /\ exitStatus' = ExitStatus
    /\ session' = "logout"
    /\ pc' = "done"
    /\ UNCHANGED <<senders, locatorVars, executorVars, promptVars, printed, exc,
                   openCalls>>

\* ---------------------------------------------------------- specification
Next ==
    \/ ConnectOk
    \/ ConnectSelectNotOk
    \/ ConnectFails
    \/ SearchOk
    \/ SearchNotOk
    \/ SearchRaises
    \/ SearchIllegal
    \/ FetchOk
    \/ FetchNotOk
    \/ FetchRaises
    \/ FindReturn
    \/ DisplaySummary
    \/ ReadConfirmation
    \/ ReadEOF
    \/ StoreOk
    \/ StoreNotOk
    \/ StoreRaises
    \/ ExpungeOk
    \/ ExpungeNotOk
    \/ ExpungeRaises
    \/ Interrupt
    \/ CloseRaises
    \/ CloseIllegal
    \/ LogoutOk
    \/ LogoutRaises

Spec == Init /\ [][Next]_vars

\* the runs from an inbox in which nothing is flagged yet: no step of the
\* script reads the server's flags, so these runs take every path
InitUnflagged == Init /\ flagged = {}

\* the script is one sequential thread: whenever a step is possible one is taken
FairSpec == InitUnflagged /\ [][Next]_vars /\ WF_vars(Next)

\* ------------------------------------------------------------- properties
IsPrefix(s, u) == Len(s) <= Len(u) /\ \A i \in DOMAIN s : s[i] = u[i]

\* the ids of the located messages, in sequence order
LocatedIds == [i \in DOMAIN emails_to_delete |-> emails_to_delete[i].id]

\* the id and the sender of the located messages, in sequence order
LocatedPairs ==
    [i \in DOMAIN emails_to_delete |->
        [id |-> emails_to_delete[i].id, sender |-> emails_to_delete[i].sender]]

\* the session was opened in this run
Opened == session # "none"

\* main() has left the try body without a propagating exception
LeftNormally == pc \in {"close", "done"} /\ Opened /\ exc = "none"

NormalizedResponse == Normalize(response)

SaidYes == NormalizedResponse \in {<<"y">>, <<"y", "e", "s">>}

\* C1: as long as the response read at the prompt, trimmed and lower-cased,
\* is not "y" or "yes" (this includes the time before the prompt), no store
\* call and no expunge call has been issued.
C1_ConfirmationGate ==
    ~SaidYes => storeLog = <<>> /\ expungeOutcome = <<>>

\* a run that located messages, read "maybe" and ended
C1_Witness ==
    /\ pc = "done"
    /\ response = <<"m", "a", "y", "b", "e">>
    /\ emails_to_delete # <<>>
    /\ storeLog = <<>>

\* C2: store is called for the located messages in sequence order, never
\* twice for an entry and never out of order; expunge is called at most once
\* and only after the store of the last entry; and a run that read "y", "Y",
\* "yes" or "YES" (or any line normalising to them) and left delete_emails
\* has called store for every entry and expunge exactly once, whichever
\* stores failed.
C2_MarkEachThenPurgeOnce ==
    /\ IsPrefix(storeLog, LocatedIds)
    /\ Len(storeOk) = Len(storeLog)
    /\ Len(expungeOutcome) <= 1
    /\ expungeOutcome # <<>> => storeLog = LocatedIds
    /\ (SaidYes /\ LeftNormally)
         => storeLog = LocatedIds /\ Len(expungeOutcome) = 1

\* " YES" was read, two or more entries, a store failed, expunge was called
C2_Witness ==
    /\ pc = "done"
    /\ response = <<" ", "Y", "E", "S", "\t">>
    /\ Len(emails_to_delete) >= 2
    /\ \E i \in DOMAIN storeOk : ~storeOk[i]
    /\ \E i \in DOMAIN storeOk : storeOk[i]
    /\ Len(expungeOutcome) = 1

\* C3: close is never called twice, and every run that opened the session
\* has called close exactly once when it ends, whether it ended with
\* nothing to do, cancelled, confirmed, or with an exception.
C3_CloseExactlyOnce ==
    /\ closeCalls <= 1
    /\ (pc = "done" /\ Opened) => closeCalls = 1

\* an exception raised during execution, after a store, and the run ended
C3_Witness ==
    /\ pc = "done"
    /\ exc = "KeyboardInterrupt"
    /\ storeLog # <<>>
    /\ expungeOutcome = <<>>
    /\ closeCalls = 1

\* C4: every run that opened the session has called logout exactly once
\* when it ends, also when close failed, and no failure of close or logout
\* reaches the caller.
C4_LogoutExactlyOnce ==
    /\ logoutCalls <= 1
    /\ (pc = "done" /\ Opened) => logoutCalls = 1
    /\ (pc = "done" /\ Opened /\ exc = "none") => exitStatus = 0

\* the store calls that flagged their message, and those that did not
MarksSucceeded == {i \in DOMAIN storeOk : storeOk[i]}

MarksFailed == {i \in DOMAIN storeOk : ~storeOk[i]}

\* C5: at every point of the executor's loop deleted_count is the number of
\* store calls so far that marked their message and failed_count the number
\* that did not; when the loop has finished the two add up to the number of
\* located messages.
C5_CountsMatchOutcomes ==
    /\ deleted_count = Cardinality(MarksSucceeded)
    /\ failed_count = Cardinality(MarksFailed)
    /\ pc = "expunge" => deleted_count + failed_count = Len(emails_to_delete)

\* C6: with a sender list of unique entries, a sender whose search failed
\* (raised or answered a non-OK status) has no entry in the located
\* sequence, the locator returns only after a search for every sender, and
\* no error of the session escapes it.
C6_FailedSearchSkipsSender ==
    NoDup(senders) =>
        /\ \A k \in DOMAIN searchHist :
              ~searchHist[k].ok =>
                  \A i \in DOMAIN emails_to_delete :
                      emails_to_delete[i].sender # searchHist[k].sender
        /\ pc \in {"summary", "confirm", "store", "expunge"}
              => Len(searchHist) = Len(senders)
        /\ exc \in {"none", "KeyboardInterrupt", "EOFError"}

\* the first of two distinct senders failed, the second was searched and found
C6_Witness ==
    /\ pc = "summary"
    /\ Len(senders) = 2
    /\ senders[1] # senders[2]
    /\ Len(searchHist) = 2
    /\ ~searchHist[1].ok
    /\ searchHist[2].ok
    /\ emails_to_delete # <<>>
    /\ \E m \in MsgIds : senders[1] \in from[m]

\* C7: the search calls issued so far are, in order, the searches for the
\* first senders of the list, one each: never more calls than senders, none
\* repeated, none out of order.
C7_OneSearchPerSenderInOrder ==
    /\ Len(searchLog) <= Len(senders)
    /\ \A i \in DOMAIN searchLog :
          searchLog[i] = "FROM \"" \o senders[i] \o "\""
    /\ Len(searchHist) = Len(searchLog)

\* two searches for two senders with a failure in between
C7_Witness ==
    /\ pc = "summary"
    /\ Len(senders) = 2
    /\ Len(searchLog) = 2
    /\ faults > 0

\* the entries search call k contributes from position j on: one per
\* returned id whose fetch did not fail, in returned order
RECURSIVE KeptFrom(_, _)
KeptFrom(k, j) ==
    IF j > Len(searchHist[k].ids)
    THEN <<>>
    ELSE (IF <<k, j>> \in fetchFailed
          THEN <<>>
          ELSE <<[id |-> searchHist[k].ids[j], sender |-> searchHist[k].sender]>>)
         \o KeptFrom(k, j + 1)

\* the concatenation over the first k search calls
RECURSIVE ExpectedUpTo(_)
ExpectedUpTo(k) ==
    IF k = 0
    THEN <<>>
    ELSE ExpectedUpTo(k - 1) \o (IF searchHist[k].ok THEN KeptFrom(k, 1) ELSE <<>>)

\* C8: the sequence the locator returns is the concatenation, in search
\* order, of every successful search's ids in returned order, without
\* exactly the ids whose fetch failed.
C8_OutputIsConcatenation ==
    pc \in {"summary", "confirm", "store", "expunge"}
        => LocatedPairs = ExpectedUpTo(Len(searchHist))

\* a fetch failed for one of two ids of a search and the other id is kept
C8_Witness ==
    /\ pc = "summary"
    /\ \E k \in DOMAIN searchHist :
          /\ Len(searchHist[k].ids) = 2
          /\ <<k, 1>> \in fetchFailed
          /\ \E i \in DOMAIN emails_to_delete :
                /\ emails_to_delete[i].id = searchHist[k].ids[2]
                /\ emails_to_delete[i].sender = searchHist[k].sender

\* C9: every run ends, and a run that opened the session and met nothing but
\* search, fetch, store and expunge failures ends with the session closed
\* and exit status 0.
C9_FailuresNeverTerminate ==
    /\ <>(pc = "done")
    /\ []((pc = "done" /\ Opened /\ exc \notin {"KeyboardInterrupt", "EOFError"})
             => (exitStatus = 0 /\ closeCalls = 1))

\* a store raised and the run ended with status 0
C9_Witness ==
    /\ pc = "done"
    /\ exitStatus = 0
    /\ "store_error" \in printed
    /\ closeCalls = 1

PurgeFailed == expungeOutcome \in {<<"NO">>, <<"raise">>}

\* the messages a store call of this run marked
MarkedOk == {storeLog[i] : i \in MarksSucceeded}

\* C10: when expunge failed, at the end of the run every message the run
\* marked is still in the folder, still flagged.
C10_FailedPurgeKeepsMarked ==
    (pc = "done" /\ PurgeFailed) => (MarkedOk \subseteq folder /\ MarkedOk \subseteq flagged)

\* C11: when expunge failed (raised or answered NO) after the stores, the
\* report does not announce the deletion as done: neither "Successfully
\* deleted" (line 228) nor "Email deletion completed!" (line 268) is printed.
C11_FailedPurgeNotReportedAsSuccess ==
    PurgeFailed => ("success" \notin printed /\ "completed" \notin printed)

\* the session could not be opened: connect_to_gmail exited, or SELECT was
\* refused
OpenFailed == (pc = "done" /\ session = "none") \/ session = "unselected"

\* fetch calls issued so far: one per appended entry and one per failed fetch
FetchCalls == Len(emails_to_delete) + Cardinality(fetchFailed)

\* C12: open is attempted once per run, and when it failed (login or SELECT)
\* the process has ended with a non-zero status, no search, fetch, store or
\* expunge call was made and no message was removed.
C12_FailedOpenTerminates ==
    /\ openCalls <= 1
    /\ pc # "connect" => openCalls = 1
    /\ OpenFailed =>
          /\ pc = "done"
          /\ exitStatus > 0
          /\ searchLog = <<>>
          /\ FetchCalls = 0
          /\ storeLog = <<>>
          /\ expungeOutcome = <<>>
          /\ folder = MsgIds

\* the character of the string s at position i
CharAt(s, i) == SubSeq(s, i, i)

\* RFC 3501 quoted string from position i (after the opening quote): its
\* text, and the position of the closing quote (0: none); a backslash
\* quotes the next character
RECURSIVE ScanQuoted(_, _, _)
ScanQuoted(s, i, acc) ==
    IF i > Len(s) THEN [close |-> 0, text |-> acc]
    ELSE IF CharAt(s, i) = "\"" THEN [close |-> i, text |-> acc]
    ELSE IF CharAt(s, i) = "\\" /\ i < Len(s)
         THEN ScanQuoted(s, i + 2, acc \o CharAt(s, i + 1))
         ELSE ScanQuoted(s, i + 1, acc \o CharAt(s, i))

\* an atom from position i: up to a space, a quote or the end
RECURSIVE ScanAtom(_, _, _)
ScanAtom(s, i, acc) ==
    IF i > Len(s) \/ CharAt(s, i) \in {" ", "\""}
    THEN [next |-> i, text |-> acc]
    ELSE ScanAtom(s, i + 1, acc \o CharAt(s, i))

\* the tokens the server reads in the arguments of a SEARCH command
RECURSIVE SearchTokens(_, _)
SearchTokens(s, i) ==
    IF i > Len(s) THEN <<>>
    ELSE IF CharAt(s, i) = " " THEN SearchTokens(s, i + 1)
    ELSE IF CharAt(s, i) = "\""
         THEN LET q == ScanQuoted(s, i + 1, "") IN
              IF q.close = 0
              THEN <<[kind |-> "unterminated", text |-> q.text]>>
              ELSE <<[kind |-> "quoted", text |-> q.text]>>
                   \o SearchTokens(s, q.close + 1)
         ELSE LET a == ScanAtom(s, i, "") IN
              <<[kind |-> "atom", text |-> a.text]>> \o SearchTokens(s, a.next)

\* C13: the arguments of every search call read as one criterion: the key
\* FROM and one quoted string whose text is the sender pattern, also when the
\* pattern has a double quote or a backslash in it.
C13_SearchIsOneFromCriterion ==
    \A i \in DOMAIN searchLog :
        SearchTokens(searchLog[i], 1) =
            << [kind |-> "atom", text |-> "FROM"],
               [kind |-> "quoted", text |-> senders[i]] >>

RECURSIVE SumOfSizes(_)
SumOfSizes(groups) ==
    IF groups = <<>>
    THEN 0
    ELSE Len(Head(groups).emails) + SumOfSizes(Tail(groups))

\* position of the first entry of the sender in the located sequence
FirstSeen(sender) ==
    CHOOSE i \in DOMAIN emails_to_delete :
        /\ emails_to_delete[i].sender = sender
        /\ \A j \in 1..(i - 1) : emails_to_delete[j].sender # sender

\* the entries of the sender, in sequence order
EntriesOf(sender) ==
    SelectSeq(emails_to_delete, LAMBDA e : e.sender = sender)

\* C14: display_email_summary returns False exactly for the empty sequence
\* ("none found" is printed, no summary); for a non-empty one it returns True
\* and the groups it printed are one per sender, in the order the senders
\* first appear in the sequence, each holding that sender's entries, the
\* sizes adding up to the length of the sequence.
C14_SummaryGroupsBySender ==
    /\ "none_found" \in printed => (emails_to_delete = <<>> /\ "summary" \notin printed)
    /\ pc \in {"confirm", "store", "expunge"} => "summary" \in printed
    /\ (pc \in {"close", "done"} /\ Opened /\ exc = "none"
          /\ "summary" \notin printed) => emails_to_delete = <<>>
    /\ pc = "confirm" =>
          LET groups == by_sender IN
          /\ emails_to_delete # <<>>
          /\ \A g, h \in DOMAIN groups :
                g < h => FirstSeen(groups[g].sender) < FirstSeen(groups[h].sender)
          /\ \A g \in DOMAIN groups :
                groups[g].emails = EntriesOf(groups[g].sender)
          /\ \A i \in DOMAIN emails_to_delete :
                \E g \in DOMAIN groups :
                    groups[g].sender = emails_to_delete[i].sender
          /\ SumOfSizes(groups) = Len(emails_to_delete)

\* two groups were printed, the second sender's group holding two entries
C14_Witness ==
    /\ pc = "confirm"
    /\ LET groups == by_sender IN
          /\ Len(groups) = 2
          /\ groups[1].sender = senders[1]
          /\ Len(groups[2].emails) = 2

\* the header's encoded bytes cannot be decoded: unknown codec or invalid bytes
Undecodable(subject) ==
    \E i \in DOMAIN subject.parts :
        /\ subject.parts[i].bytes
        /\ subject.parts[i].charset # ""
        /\ (subject.parts[i].charset \notin {"utf-8"} \/ ~subject.parts[i].decodes)

PhaseOrderNow ==
    /\ (searchLog # <<>> \/ FetchCalls > 0) => (openCalls = 1 /\ Opened)
    /\ promptCalls > 0 =>
          (pc \in {"store", "expunge", "close", "done"}
             /\ "summary" \in printed)
    /\ storeLog # <<>> => promptCalls = 1
    /\ expungeOutcome # <<>> => storeLog = LocatedIds
    /\ closeCalls > 0 => pc = "done"

\* no call out of its phase in a step
PhaseOrderStep ==
    /\ promptCalls > 0 => (searchLog' = searchLog /\ FetchCalls' = FetchCalls)
    /\ promptCalls = 0 => (storeLog' = storeLog /\ expungeOutcome' = expungeOutcome)
    /\ expungeOutcome # <<>> => storeLog' = storeLog
    /\ (closeCalls > 0 \/ ~Opened) =>
          /\ searchLog' = searchLog
          /\ FetchCalls' = FetchCalls
          /\ storeLog' = storeLog
          /\ expungeOutcome' = expungeOutcome

\* C16: the calls of a run come in the order open, discovery, summary,
\* confirmation, execution, purge, close: no search or fetch once the prompt
\* was shown, no store before it, no store after the expunge, and no search,
\* fetch, store or expunge before the session was opened or after close was
\* called.
C16_PhaseOrder == [](PhaseOrderNow) /\ [][PhaseOrderStep]_vars

\* a confirmed run through every phase that has ended
C16_Witness ==
    /\ pc = "done"
    /\ Len(searchLog) = 2
    /\ FetchCalls >= 2
    /\ promptCalls = 1
    /\ Len(storeLog) >= 2
    /\ expungeOutcome = <<"OK">>
    /\ closeCalls = 1
    /\ logoutCalls = 1

\* number of entries of the located sequence for message m
EntriesFor(m) ==
    Cardinality({i \in DOMAIN emails_to_delete : emails_to_delete[i].id = m})

\* number of store calls for message m
StoresFor(m) == Cardinality({i \in DOMAIN storeLog : storeLog[i] = m})

\* C17: a message returned by the searches of two different senders, both
\* fetched, has an entry for each in the located sequence; after a confirmed
\* run store was called once per entry, so twice for that message; and the
\* calls counted (deleted_count + failed_count) are the store calls, not the
\* distinct messages.
C17_NoDedupAcrossSenders ==
    /\ pc \in {"summary", "confirm", "store", "expunge"} =>
          \A k, l \in DOMAIN searchHist :
              \A a \in DOMAIN searchHist[k].ids, b \in DOMAIN searchHist[l].ids :
                  ( /\ k < l
                    /\ searchHist[k].sender # searchHist[l].sender
                    /\ searchHist[k].ids[a] = searchHist[l].ids[b]
                    /\ <<k, a>> \notin fetchFailed
                    /\ <<l, b>> \notin fetchFailed )
                  => \E i, j \in DOMAIN LocatedPairs :
                        /\ i < j
                        /\ LocatedPairs[i] = [id |-> searchHist[k].ids[a],
                                              sender |-> searchHist[k].sender]
                        /\ LocatedPairs[j] = [id |-> searchHist[l].ids[b],
                                              sender |-> searchHist[l].sender]
    /\ (SaidYes /\ LeftNormally) => \A m \in MsgIds : StoresFor(m) = EntriesFor(m)
    /\ deleted_count + failed_count = Len(storeLog)

\* one message matched by both senders: two entries, two stores, and
\* deleted_count = 2 with one message marked
C17_Witness ==
    /\ pc = "done"
    /\ senders = <<PlainPattern, QuotedPattern>>
    /\ \E m \in MsgIds :
          /\ LocatedIds = <<m, m>>
          /\ storeLog = <<m, m>>
          /\ MarkedOk = {m}
    /\ deleted_count = 2

\* C18: every message that is no longer in the folder was marked by a store
\* call of this run: a message no search returned, such as one flagged
\* \Deleted before the run, is never removed, whether the run was confirmed,
\* cancelled or had nothing to do.
C18_OnlyMarkedMessagesRemoved ==
    (MsgIds \ folder) \subseteq MarkedOk

\* C19: a run whose discovery located nothing (no sender, no match, or
\* failed searches and fetches) takes the nothing-to-do path: it never
\* prompts, never calls store or expunge, calls close once, and ends with
\* status 0; the prompt and the executor are reached only with a non-empty
\* located sequence.
C19_NothingToDoEndsQuietly ==
    /\ pc \in {"confirm", "store", "expunge"} => emails_to_delete # <<>>
    /\ (LeftNormally /\ emails_to_delete = <<>>) =>
          /\ "none_found" \in printed
          /\ promptCalls = 0
          /\ storeLog = <<>>
          /\ expungeOutcome = <<>>
          /\ pc = "done" => (closeCalls = 1 /\ exitStatus = 0)

\* two senders, a matching message, nothing located because a search failed
C19_Witness ==
    /\ pc = "done"
    /\ emails_to_delete = <<>>
    /\ Len(searchHist) = 2
    /\ \E k \in DOMAIN searchHist :
          /\ ~searchHist[k].ok
          /\ \E m \in MsgIds : searchHist[k].sender \in from[m]
    /\ promptCalls = 0
    /\ closeCalls = 1
    /\ exitStatus = 0

====
